---- MODULE Spec2Model ----
(***************************************************************************)
(* Verification model of the tcn_spike package: the label generator, the   *)
(* sequence windower, the time-series scaler, the rolling slope metrics,   *)
(* the Heikin-Ashi transform, the causal TCN blocks and the train/valid    *)
(* split of train_model.                                                    *)
(*                                                                         *)
(* Arrays keep Python's 0-based indices: an array of length n is a         *)
(* function with domain 0..n-1.  Real numbers are exact rationals          *)
(* [k |-> "rat", n, d] with d > 0; NaN is [k |-> "nan"].                   *)
(*                                                                         *)
(* Every component owns one variable, a record whose fields carry the      *)
(* names of the locals / attributes of the code it models.  A component    *)
(* that a specification does not run stays at Idle.                        *)
(***************************************************************************)
EXTENDS Integers, Naturals, Sequences, FiniteSets, TLC

VARIABLES lab, win, sc, roll, ha, tcn, tr

vars == <<lab, win, sc, roll, ha, tcn, tr>>

Idle == [pc |-> "idle"]

(***************************************************************************)
(* Bounds of the explored inputs.                                          *)
(***************************************************************************)
MaxLen == 4          \* longest close series
MaxPrice == 3        \* close prices are 1..MaxPrice
MaxHorizon == 2      \* horizons are 1..MaxHorizon
ThrDen == 2          \* thresholds are k/ThrDen, k in 1..MaxThrNum
MaxThrNum == 2
MaxRows == 5         \* feature tables have 0..MaxRows time steps
MaxFeatures == 2     \* and 1..MaxFeatures columns
MaxSeqLen == 3       \* seq_len is 1..MaxSeqLen
MaxStride == 2       \* stride is 1..MaxStride
MaxScRows == 3       \* the scaled data set has 0..MaxScRows rows
MaxSeries == 5       \* the rolling metrics run on series of 0..MaxSeries rows
MaxWindow == 3       \* with window sizes 1..MaxWindow
MaxBars == 3         \* OHLC tables have 0..MaxBars rows
MaxInputLen == 6     \* the TCN input has 1..MaxInputLen time steps
MaxKernel == 3       \* kernel_size is 1..MaxKernel
MaxLevels == 3       \* the backbone has 1..MaxLevels blocks
MaxChannels == 2     \* channel widths are 1..MaxChannels
MaxTrainRows == 8    \* train_model sees 0..MaxTrainRows feature rows
FracDen == 4         \* train_frac is k/FracDen, 0 < k < FracDen

(***************************************************************************)
(* Exact arithmetic helpers.                                               *)
(***************************************************************************)
NaN == [k |-> "nan"]
Rat(num, den) == [k |-> "rat", n |-> num, d |-> den]
IsNaN(v) == v.k = "nan"
\* a <= b for rationals with positive denominators
RatLeq(a, b) == a.n * b.d <= b.n * a.d
Min2(a, b) == IF a <= b THEN a ELSE b
Max2(a, b) == IF a >= b THEN a ELSE b

\* numpy comparison: anything compared with NaN is False
FloatGeq(a, b) == ~IsNaN(a) /\ ~IsNaN(b) /\ RatLeq(b, a)
FloatLeq(a, b) == ~IsNaN(a) /\ ~IsNaN(b) /\ RatLeq(a, b)

\* indices selected by the Python slice a[lo:hi] (0 <= lo) of an array of length len
SliceIdx(lo, hi, len) == {x \in 0..(len - 1) : lo <= x /\ x < hi}

(***************************************************************************)
(* labels/labeler.py : generate_entry_exit_labels                          *)
(***************************************************************************)
CloseSeries == UNION {[0..(n - 1) -> 1..MaxPrice] : n \in 0..MaxLen}
Thresholds == {Rat(t, ThrDen) : t \in 1..MaxThrNum}

ArrLen(a) == Cardinality(DOMAIN a)

\* faulty variant: the forward window reaches one row too far
ForwardEndOffByOne(n, i, horizon) == Min2(n, i + horizon + 2)
\* line 24: j = min(n, i + horizon + 1)
ForwardEnd(n, i, horizon) == Min2(n, i + horizon + 1)

\* faulty variant: the window starts at the row before the anchor
WindowIdxFromPrevious(n, i, j) == SliceIdx(Max2(i - 1, 0), j, n)
\* line 27: the indices of values[i + 1 : j]
WindowIdx(n, i, j) == SliceIdx(i + 1, j, n)

\* line 29: rets = window / base - 1.0, one exact rational per window index
Rets(values, i, W) == [x \in W |-> Rat(values[x] - values[i], values[i])]

\* lines 30-31: np.max / np.min of a non-empty array of rationals
NpMax(a) == CHOOSE m \in {a[x] : x \in DOMAIN a} : \A x \in DOMAIN a : RatLeq(a[x], m)
NpMin(a) == CHOOSE m \in {a[x] : x \in DOMAIN a} : \A x \in DOMAIN a : RatLeq(m, a[x])

\* lines 33-34: (array >= threshold).astype(float); a NaN entry compares False
AsFloat(b) == IF b THEN Rat(1, 1) ELSE Rat(0, 1)
Neg(r) == Rat(0 - r.n, r.d)

\* line 37: fillna(0.0)
FillNa(v) == IF IsNaN(v) THEN Rat(0, 1) ELSE v

LabelInit ==
  \E c \in CloseSeries, h \in 1..MaxHorizon, et \in Thresholds, xt \in Thresholds :
    lab = [pc |-> "loop", close |-> c, n |-> ArrLen(c), horizon |-> h,
           entry_threshold |-> et, exit_threshold |-> xt, i |-> 0,
           forward_max |-> [x \in DOMAIN c |-> NaN],
           forward_min |-> [x \in DOMAIN c |-> NaN],
           reads |-> [x \in DOMAIN c |-> {}],
           labels |-> <<>>]

\* lines 23-26: an iteration whose forward window is empty (continue)
LabelSkip ==
  /\ lab.pc = "loop" /\ lab.i < lab.n
  /\ ForwardEnd(lab.n, lab.i, lab.horizon) - lab.i <= 1
  /\ lab' = [lab EXCEPT !.i = @ + 1]
  /\ UNCHANGED <<win, sc, roll, ha, tcn, tr>>

\* lines 23-31: an iteration that reads the forward window and the base price
LabelCompute ==
  /\ lab.pc = "loop" /\ lab.i < lab.n
  /\ LET i == lab.i
         j == ForwardEnd(lab.n, i, lab.horizon)
         W == WindowIdx(lab.n, i, j)
         rets == Rets(lab.close, i, W)
     IN /\ ~(j - i <= 1)
        /\ lab' = [lab EXCEPT !.i = @ + 1,
                              !.reads[i] = W \cup {i},
                              !.forward_max[i] = NpMax(rets),
                              !.forward_min[i] = NpMin(rets)]
  /\ UNCHANGED <<win, sc, roll, ha, tcn, tr>>

\* lines 33-38: threshold comparison, DataFrame on close.index, fillna, return
LabelFinish ==
  /\ lab.pc = "loop" /\ lab.i = lab.n
  /\ lab' = [lab EXCEPT
       !.pc = "done",
       !.labels = [x \in DOMAIN lab.close |->
          [entry |-> FillNa(AsFloat(FloatGeq(lab.forward_max[x], lab.entry_threshold))),
           exit  |-> FillNa(AsFloat(FloatLeq(lab.forward_min[x], Neg(lab.exit_threshold))))]]]
  /\ UNCHANGED <<win, sc, roll, ha, tcn, tr>>

InitLabel == LabelInit /\ win = Idle /\ sc = Idle /\ roll = Idle /\ ha = Idle /\ tcn = Idle /\ tr = Idle
NextLabel == LabelSkip \/ LabelCompute \/ LabelFinish
SpecLabel == InitLabel /\ [][NextLabel]_vars

(***************************************************************************)
(* Claims about generate_entry_exit_labels.                                *)
(***************************************************************************)
LabelProcessed == {x \in DOMAIN lab.close : x < lab.i}

\* C1 (as stated): while computing the label pair of index i the generator
\* reads no price at an index <= i and no price at an index > n-1.
C1_NoReadAtOrBeforeAnchor ==
  \A x \in LabelProcessed : \A r \in lab.reads[x] : r > x /\ r <= lab.n - 1

\* C1 (amended): while computing the label pair of index i the generator
\* reads no price before index i (the only price at or before i that it reads
\* is the anchor close[i], the base of the forward returns) and no price at
\* an index > n-1.
C1_NoReadBeforeAnchor ==
  \A x \in LabelProcessed : \A r \in lab.reads[x] : r >= x /\ r <= lab.n - 1

\* the generator has finished a series in which some window was cut by the
\* series end and the anchor of some row was read
C1_Witness ==
  /\ lab.pc = "done"
  /\ \E x \in DOMAIN lab.close :
       /\ x \in lab.reads[x]
       /\ x + lab.horizon > lab.n - 1
       /\ lab.reads[x] # {x}

\* the forward window F of the specification: i+1 .. min(n, i+h+1)-1
SpecForward(n, x, h) == (x + 1)..(Min2(n, x + h + 1) - 1)
\* close[j]/close[x] - 1 >= t, cross-multiplied (close[x] > 0, t.d > 0)
RetGeq(c, x, j, t) == (c[j] - c[x]) * t.d >= t.n * c[x]
\* close[j]/close[x] - 1 <= -t
RetLeqNeg(c, x, j, t) == (c[j] - c[x]) * t.d <= (0 - t.n) * c[x]
IsOne(v) == ~IsNaN(v) /\ v.n = v.d
IsZero(v) == ~IsNaN(v) /\ v.n = 0

\* C3: the returned table has n rows with every value in {0,1}; entry[i] = 1
\* iff some forward return over F reaches entry_threshold (the maximum does),
\* exit[i] = 1 iff some forward return over F is <= -exit_threshold (the
\* minimum is), and an empty F gives (0,0).
C3_LabelValues ==
  lab.pc = "done" =>
    /\ DOMAIN lab.labels = 0..(lab.n - 1)
    /\ \A x \in DOMAIN lab.labels :
         LET F == SpecForward(lab.n, x, lab.horizon)
             row == lab.labels[x]
         IN /\ IsOne(row.entry) \/ IsZero(row.entry)
            /\ IsOne(row.exit) \/ IsZero(row.exit)
            /\ F = {} => IsZero(row.entry) /\ IsZero(row.exit)
            /\ IsOne(row.entry) <=>
                 \E j \in F : RetGeq(lab.close, x, j, lab.entry_threshold)
            /\ IsOne(row.exit) <=>
                 \E j \in F : RetLeqNeg(lab.close, x, j, lab.exit_threshold)

\* a finished run with a row labelled (1,1), a row labelled (0,0) that has
\* forward data, and the last row labelled (0,0) for lack of forward data
C3_Witness ==
  /\ lab.pc = "done"
  /\ lab.n >= 3
  /\ \E x \in DOMAIN lab.labels :
       IsOne(lab.labels[x].entry) /\ IsOne(lab.labels[x].exit)
  /\ \E x \in DOMAIN lab.labels :
       /\ x < lab.n - 1
       /\ IsZero(lab.labels[x].entry) /\ IsZero(lab.labels[x].exit)
  /\ IsZero(lab.labels[lab.n - 1].entry) /\ IsZero(lab.labels[lab.n - 1].exit)

(***************************************************************************)
(* preprocessing/window.py : SequenceWindowGenerator.generate              *)
(***************************************************************************)
\* np.float32 keeps 24 significant bits: integers up to 2^24 are exact
Float32Bits == 24
Float32Exact == 2 ^ Float32Bits

\* the value stored when v (an integer, 0 <= v < 2^25) is assigned into a
\* float32 array: exact up to 2^24, then the nearest even integer, ties to
\* the neighbour with an even mantissa
ToFloat32(v) ==
  IF v <= Float32Exact \/ v % 2 = 0 THEN v
  ELSE IF ((v - 1) \div 2) % 2 = 0 THEN v - 1 ELSE v + 1

\* feature tables with pairwise distinct entries (cell (r, f) holds
\* 1 + r*nf + f), at most one of which, the cell `big', holds a value that
\* float32 cannot represent
BigCells(n, nf) == {<<r, f>> : r \in 0..(n - 1), f \in 0..(nf - 1)} \cup {<<0 - 1, 0 - 1>>}
FeatureTable(n, nf, big) ==
  [r \in 0..(n - 1) |-> [f \in 0..(nf - 1) |->
     IF <<r, f>> = big THEN Float32Exact + 1 ELSE 1 + r * nf + f]]
TableShapes == {<<n, nf>> : n \in 0..MaxRows, nf \in 1..MaxFeatures}

None == [k |-> "none"]
\* label arrays with one row per time step: absent, 1-D, or 2-D with the
\* (entry, exit) columns; every row is distinguishable
LabelArrays(n) ==
  {None,
   [k |-> "1d", a |-> [r \in 0..(n - 1) |-> r]],
   [k |-> "2d", a |-> [r \in 0..(n - 1) |-> [c \in 0..1 |-> 2 * r + c]]]}

\* lines 33-34: a 1-D label array becomes one column
AsColumns(labels) ==
  IF labels.k = "1d"
  THEN [k |-> "2d", a |-> [r \in DOMAIN labels.a |-> [c \in 0..0 |-> labels.a[r]]]]
  ELSE labels

ArrAppend(a, v) ==
  [x \in 0..ArrLen(a) |-> IF x < ArrLen(a) THEN a[x] ELSE v]

\* faulty variant: the slab is taken one row late
SlabShifted(features, nf, s, e) ==
  [f \in 0..(nf - 1) |-> [t \in 0..(e - s - 1) |-> ToFloat32(features[Min2(s + t + 1, e - 1)][f])]]
\* line 39: features[s:e].T cast into the float32 array X[i]
Slab(features, nf, s, e) ==
  [f \in 0..(nf - 1) |-> [t \in 0..(e - s - 1) |-> ToFloat32(features[s + t][f])]]

\* line 41: labels[e - 1] cast into the float32 array y[i]
LabelRow(labels, s, e) ==
  [c \in DOMAIN labels.a[e - 1] |-> ToFloat32(labels.a[e - 1][c])]

\* faulty variant: the window ending on the last row is dropped
FitsStrictly(start, seq_len, num_timesteps) == start + seq_len < num_timesteps
\* line 25: the loop condition
Fits(start, seq_len, num_timesteps) == start + seq_len <= num_timesteps

WinInit ==
  \E sh \in TableShapes, sl \in 1..MaxSeqLen, st \in 1..MaxStride :
    \E big \in BigCells(sh[1], sh[2]), lb \in LabelArrays(sh[1]) :
      win = [pc |-> "while", features |-> FeatureTable(sh[1], sh[2], big),
             labels |-> lb,
             seq_len |-> sl, stride |-> st,
             num_timesteps |-> sh[1], num_features |-> sh[2],
             indices |-> <<>>, start |-> 0,
             num_samples |-> 0, i |-> 0,
             X |-> None, y |-> None]

\* lines 25-27: one iteration of the while loop
WinAppend ==
  /\ win.pc = "while"
  /\ Fits(win.start, win.seq_len, win.num_timesteps)
  /\ win' = [win EXCEPT
       !.indices = ArrAppend(@, <<win.start, win.start + win.seq_len>>),
       !.start = @ + win.stride]
  /\ UNCHANGED <<lab, sc, roll, ha, tcn, tr>>

\* lines 25, 29-36: the loop exits; X and y are allocated
WinAlloc ==
  /\ win.pc = "while"
  /\ ~Fits(win.start, win.seq_len, win.num_timesteps)
  /\ LET ns == ArrLen(win.indices)
         lb == AsColumns(win.labels)
     IN win' = [win EXCEPT
          !.pc = "fill", !.num_samples = ns, !.i = 0, !.labels = lb,
          !.X = [shape |-> <<ns, win.num_features, win.seq_len>>,
                 a |-> [x \in 0..(ns - 1) |->
                         [f \in 0..(win.num_features - 1) |->
                           [t \in 0..(win.seq_len - 1) |-> 0]]]],
          !.y = IF lb = None THEN None
                ELSE [shape |-> <<ns, IF win.labels.k = "1d" THEN 1 ELSE 2>>,
                      a |-> [x \in 0..(ns - 1) |->
                              [c \in 0..(IF win.labels.k = "1d" THEN 0 ELSE 1) |-> 0]]]]
  /\ UNCHANGED <<lab, sc, roll, ha, tcn, tr>>

\* lines 38-41: one iteration of the fill loop
WinFill ==
  /\ win.pc = "fill" /\ win.i < win.num_samples
  /\ LET s == win.indices[win.i][1]
         e == win.indices[win.i][2]
     IN win' = [win EXCEPT
          !.i = @ + 1,
          !.X = [@ EXCEPT !.a[win.i] = Slab(win.features, win.num_features, s, e)],
          !.y = IF win.labels = None THEN @
                ELSE [@ EXCEPT !.a[win.i] = LabelRow(win.labels, s, e)]]
  /\ UNCHANGED <<lab, sc, roll, ha, tcn, tr>>

\* line 43: return X, y
WinReturn ==
  /\ win.pc = "fill" /\ win.i = win.num_samples
  /\ win' = [win EXCEPT !.pc = "done"]
  /\ UNCHANGED <<lab, sc, roll, ha, tcn, tr>>

InitWindow == WinInit /\ lab = Idle /\ sc = Idle /\ roll = Idle /\ ha = Idle /\ tcn = Idle /\ tr = Idle
NextWindow == WinAppend \/ WinAlloc \/ WinFill \/ WinReturn
\* generate is straight-line sequential code: it keeps running until it returns
SpecWindow == InitWindow /\ [][NextWindow]_vars /\ WF_vars(NextWindow)

(***************************************************************************)
(* Claims about SequenceWindowGenerator.generate.                          *)
(***************************************************************************)
\* the start offsets of the specification: k*stride with k*stride+seq_len <= num_rows
SpecStarts(num_rows, seq_len, stride) ==
  {k * stride : k \in {q \in 0..num_rows : q * stride + seq_len <= num_rows}}

WinEmitted ==
  /\ DOMAIN win.indices = 0..(Cardinality(SpecStarts(win.num_timesteps, win.seq_len, win.stride)) - 1)
  /\ {win.indices[x][1] : x \in DOMAIN win.indices}
       = SpecStarts(win.num_timesteps, win.seq_len, win.stride)
  /\ \A x \in DOMAIN win.indices : \A z \in DOMAIN win.indices :
       x < z => win.indices[x][1] < win.indices[z][1]
  /\ \A x \in DOMAIN win.indices :
       /\ 0 <= win.indices[x][1]
       /\ win.indices[x][2] = win.indices[x][1] + win.seq_len
       /\ win.indices[x][2] <= win.num_timesteps
  /\ win.X.shape = <<ArrLen(win.indices), win.num_features, win.seq_len>>
  /\ DOMAIN win.X.a = DOMAIN win.indices
  /\ \A x \in DOMAIN win.X.a : \A f \in DOMAIN win.X.a[x] :
       DOMAIN win.X.a[x][f] = 0..(win.seq_len - 1)
  /\ win.seq_len > win.num_timesteps =>
       /\ win.X.shape[1] = 0 /\ win.X.a = <<>>
       /\ win.labels # None => win.y.shape[1] = 0 /\ win.y.a = <<>>

\* C4: generate terminates, and on return it has emitted, in increasing
\* order, exactly one window per start offset k*stride with
\* k*stride + seq_len <= num_rows; every window is rows [start, start+seq_len)
\* inside [0, num_rows), unpadded; seq_len > num_rows gives empty tensors.
C4_Windows == [](win.pc = "done" => WinEmitted) /\ <>(win.pc = "done")

\* generate has returned two windows of at least two rows with stride 2
C4_Witness ==
  /\ win.pc = "done"
  /\ win.stride = 2
  /\ win.num_samples = 2
  /\ win.indices[1] = <<2, 2 + win.seq_len>>
  /\ win.seq_len >= 2

\* generate has returned zero windows because seq_len > num_rows >= 1
C4_WitnessEmpty ==
  /\ win.pc = "done"
  /\ win.num_timesteps >= 1
  /\ win.seq_len > win.num_timesteps
  /\ win.num_samples = 0

WinFilled == {x \in DOMAIN win.indices : win.pc \in {"fill", "done"} /\ x < win.i}

\* C5 (as stated): every emitted sample holds exactly the feature values of
\* rows s..s+seq_len-1, X[sample][f][t] = features[s+t][f], and the label row
\* of index s+seq_len-1.
C5_SlabEqualsFeatures ==
  \A x \in WinFilled :
    LET s == win.indices[x][1]
    IN /\ \A f \in 0..(win.num_features - 1) : \A t \in 0..(win.seq_len - 1) :
            win.X.a[x][f][t] = win.features[s + t][f]
       /\ win.labels # None =>
            win.y.a[x] = win.labels.a[s + win.seq_len - 1]

\* C5 (amended): every emitted sample holds the single-precision (float32)
\* conversion of the feature values of rows s..s+seq_len-1,
\* X[sample][f][t] = float32(features[s+t][f]), and the float32 conversion of
\* the label row of index s+seq_len-1; no sample holds a feature row whose
\* index exceeds that of its label row.
C5_SlabAlignment ==
  \A x \in WinFilled :
    LET s == win.indices[x][1]
        rows == {s + t : t \in 0..(win.seq_len - 1)}
        lrow == s + win.seq_len - 1
    IN /\ \A f \in 0..(win.num_features - 1) : \A t \in 0..(win.seq_len - 1) :
            win.X.a[x][f][t] = ToFloat32(win.features[s + t][f])
       /\ win.labels # None =>
            /\ DOMAIN win.y.a[x] = DOMAIN win.labels.a[lrow]
            /\ \A c \in DOMAIN win.y.a[x] :
                 win.y.a[x][c] = ToFloat32(win.labels.a[lrow][c])
       /\ \A r \in rows : r <= lrow

\* generate has returned two labelled windows of at least two rows and two
\* columns, one of them holding a value that float32 rounds
C5_Witness ==
  /\ win.pc = "done"
  /\ win.labels # None
  /\ win.num_samples >= 2
  /\ win.seq_len >= 2
  /\ win.num_features = 2
  /\ win.X.a[1][1][1] = Float32Exact

(***************************************************************************)
(* preprocessing/normalization.py : StandardScalerTimeSeries               *)
(***************************************************************************)
\* the columns of the data set, in order (features.columns)
Columns == <<"a", "b">>
ColSet == {Columns[x] : x \in DOMAIN Columns}
\* the values a cell may hold
ScVals == {1, 3}
ScTables == UNION {[0..(n - 1) -> [ColSet -> ScVals]] : n \in 0..MaxScRows}
\* slice(a, b) with 0 <= a, 0 <= b; b may lie past the end of the table
ScSlices(n) == {sl \in (0..n) \X (0..(n + 1)) : sl[1] <= sl[2]}

RECURSIVE SumOver(_, _, _)
\* sum of col[r]^p over the rows r in R (p is 1 or 2)
SumOver(col, R, p) ==
  IF R = {} THEN 0
  ELSE LET r == CHOOSE x \in R : TRUE
       IN (IF p = 1 THEN col[r] ELSE col[r] * col[r]) + SumOver(col, R \ {r}, p)

\* line 18: the rows of features.iloc[train_slice]
TrainRows(features, sl) == SliceIdx(sl[1], sl[2], ArrLen(features))
ColumnOf(features, c) == [r \in DOMAIN features |-> features[r][c]]

\* line 20: pandas mean over the rows R; NaN for no rows
PdMean(col, R) ==
  IF R = {} THEN NaN ELSE Rat(SumOver(col, R, 1), Cardinality(R))

\* line 21: pandas std (sample standard deviation, ddof = 1) over the rows R:
\* sqrt(n/d) with n/d = (m*sum(x^2) - sum(x)^2) / (m*(m-1)); NaN for m < 2
Sqrt(num, den) == [k |-> "sqrt", n |-> num, d |-> den]
PdStd(col, R) ==
  LET m == Cardinality(R)
      S == SumOver(col, R, 1)
      Q == SumOver(col, R, 2)
  IN IF m < 2 THEN NaN ELSE Sqrt(m * Q - S * S, m * (m - 1))

\* faulty variant: a zero std is stored as it is
ZeroStdKept(std) == std
\* line 22: std[std == 0.0] = 1.0 (NaN == 0.0 is False)
ZeroStdToOne(std) ==
  IF ~IsNaN(std) /\ std.n = 0 THEN Sqrt(1, 1) ELSE std

\* lines 19-23: the attributes fit stores
FitParams(features, sl) ==
  LET R == TrainRows(features, sl)
  IN [feature_names_ |-> Columns,
      mean_ |-> [c \in ColSet |-> PdMean(ColumnOf(features, c), R)],
      std_ |-> [c \in ColSet |-> ZeroStdToOne(PdStd(ColumnOf(features, c), R))]]

\* line 29: (x - mean) / std for one cell, by IEEE rules
Inf == [k |-> "inf"]
Scaled(x, mean, std) ==
  IF IsNaN(mean) \/ IsNaN(std) THEN NaN
  ELSE IF std.n = 0
       THEN (IF x * mean.d - mean.n = 0 THEN NaN ELSE Inf)
       ELSE [k |-> "val", n |-> x * mean.d - mean.n, d |-> mean.d, s |-> std]

\* line 26: transform's state check
TransformUnfit(mean_, std_) == mean_ = None \/ std_ = None

\* faulty variant: the test on mean_ is inverted
GetParamsUnfitInverted(mean_, std_, feature_names_) ==
  mean_ # None \/ std_ = None \/ feature_names_ = None
\* line 37: get_params' state check
GetParamsUnfit(mean_, std_, feature_names_) ==
  mean_ = None \/ std_ = None \/ feature_names_ = None

\* lines 25-30: what transform does with the given attributes
TransformCall(mean_, std_, feature_names_, features) ==
  IF TransformUnfit(mean_, std_)
  THEN [result |-> "RuntimeError"]
  ELSE [result |-> "ok",
        columns |-> feature_names_,
        out |-> [r \in DOMAIN features |->
                  [c \in ColSet |-> Scaled(features[r][c], mean_[c], std_[c])]]]

\* line 12-15: a new scaler, given the data set it will be used on
ScInit ==
  \E ft \in ScTables :
    sc = [pc |-> "ready", features |-> ft,
          mean_ |-> None, std_ |-> None, feature_names_ |-> None,
          fit_done |-> FALSE, train_slice |-> None,
          op |-> "init", fit_done_before |-> FALSE, call |-> None]

\* lines 17-23: fit(features, train_slice)
ScFit ==
  \E sl \in ScSlices(ArrLen(sc.features)) :
    LET p == FitParams(sc.features, sl)
    IN sc' = [sc EXCEPT !.mean_ = p.mean_, !.std_ = p.std_,
                        !.feature_names_ = p.feature_names_,
                        !.fit_done = TRUE, !.train_slice = sl,
                        !.op = "fit", !.fit_done_before = sc.fit_done,
                        !.call = [result |-> "ok"]]
       /\ UNCHANGED <<lab, win, roll, ha, tcn, tr>>

\* lines 25-30: transform(features)
ScTransform ==
  /\ sc' = [sc EXCEPT !.op = "transform", !.fit_done_before = sc.fit_done,
                      !.call = TransformCall(sc.mean_, sc.std_, sc.feature_names_,
                                             sc.features)]
  /\ UNCHANGED <<lab, win, roll, ha, tcn, tr>>

\* lines 32-34: fit_transform(features, train_slice) = fit, then transform
ScFitTransform ==
  \E sl \in ScSlices(ArrLen(sc.features)) :
    LET p == FitParams(sc.features, sl)
    IN sc' = [sc EXCEPT !.mean_ = p.mean_, !.std_ = p.std_,
                        !.feature_names_ = p.feature_names_,
                        !.fit_done = TRUE, !.train_slice = sl,
                        !.op = "fit_transform", !.fit_done_before = sc.fit_done,
                        !.call = TransformCall(p.mean_, p.std_, p.feature_names_,
                                               sc.features)]
       /\ UNCHANGED <<lab, win, roll, ha, tcn, tr>>

\* lines 36-39: get_params()
ScGetParams ==
  /\ sc' = [sc EXCEPT
       !.op = "get_params", !.fit_done_before = sc.fit_done,
       !.call = IF GetParamsUnfit(sc.mean_, sc.std_, sc.feature_names_)
                THEN [result |-> "RuntimeError"]
                ELSE [result |-> "ok",
                      out |-> <<sc.mean_, sc.std_, sc.feature_names_>>]]
  /\ UNCHANGED <<lab, win, roll, ha, tcn, tr>>

InitScaler == ScInit /\ lab = Idle /\ win = Idle /\ roll = Idle /\ ha = Idle /\ tcn = Idle /\ tr = Idle
NextScaler == ScFit \/ ScTransform \/ ScFitTransform \/ ScGetParams
SpecScaler == InitScaler /\ [][NextScaler]_vars

(***************************************************************************)
(* Claims about StandardScalerTimeSeries.                                  *)
(***************************************************************************)
ScalerUnfit == sc.mean_ = None /\ sc.std_ = None /\ sc.feature_names_ = None
ScalerFit == sc.mean_ # None /\ sc.std_ # None /\ sc.feature_names_ # None

\* the last call was a transform or get_params: it failed with the state
\* error iff no fit / fit_transform had completed before it; the transform
\* inside fit_transform never fails
C6_FailsIffUnfit ==
  /\ sc.op \in {"transform", "get_params"} =>
       (sc.call.result = "RuntimeError" <=> ~sc.fit_done_before)
  /\ sc.op \in {"fit", "fit_transform"} => sc.call.result = "ok"
  /\ sc.fit_done <=> ScalerFit
  /\ ~sc.fit_done <=> ScalerUnfit

\* a failing call leaves an unfit scaler unfit with every attribute unchanged,
\* and a fit scaler stays fit
C6_Step ==
  /\ sc'.call.result = "RuntimeError" =>
       /\ sc'.mean_ = sc.mean_ /\ sc'.std_ = sc.std_
       /\ sc'.feature_names_ = sc.feature_names_
       /\ ScalerUnfit /\ ScalerUnfit'
  /\ ScalerFit => ScalerFit'

\* C6: in every sequence of fit / transform / fit_transform / get_params calls
\* on one scaler, transform and get_params fail with the state error iff no
\* fit has completed before; the failing call changes no attribute; a scaler
\* that has been fit never becomes unfit again.
C6_ScalerStates == [](C6_FailsIffUnfit) /\ [][C6_Step]_vars

\* transform has just failed on a scaler that was never fit
C6_Witness ==
  /\ sc.op = "transform"
  /\ sc.call.result = "RuntimeError"
  /\ ScalerUnfit

\* transform has succeeded on a scaler fit by an earlier call
C6_WitnessFit ==
  /\ sc.op = "transform"
  /\ sc.call.result = "ok"
  /\ sc.fit_done_before

\* the rows of the last fit's training range, and the columns whose sample
\* standard deviation over them is exactly 0: constant over >= 2 rows
FitRows == TrainRows(sc.features, sc.train_slice)
ZeroStdColumn(c) ==
  /\ Cardinality(FitRows) >= 2
  /\ \A r \in FitRows : \A q \in FitRows : sc.features[r][c] = sc.features[q][c]
IsStdOne(std) == ~IsNaN(std) /\ std.n = std.d
DefinedNonzero(std) == ~IsNaN(std) /\ std.n > 0 /\ std.d > 0
IsScaledZero(v) == v.k = "val" /\ v.n = 0
Transformed == sc.op \in {"transform", "fit_transform"} /\ sc.call.result = "ok"

\* C8 (as stated): for every training range, a column with training-range
\* std exactly 0 is stored with std = 1, every stored std is a nonzero defined
\* number, transform never divides by zero, and such a column is constant
\* zero after scaling.
C8_EveryRangeDefined ==
  sc.fit_done =>
    \A c \in ColSet :
      /\ ZeroStdColumn(c) => IsStdOne(sc.std_[c])
      /\ DefinedNonzero(sc.std_[c])
      /\ Transformed =>
           \A r \in DOMAIN sc.call.out :
             /\ sc.call.out[r][c] # Inf
             /\ ZeroStdColumn(c) => IsScaledZero(sc.call.out[r][c])

\* C8 (amended): for every training range of at least two rows of a fully
\* defined table, a column with training-range (sample) std exactly 0 is
\* stored with std = 1, every stored std is a nonzero defined number,
\* transform never divides by zero, and such a column is zero after scaling on
\* every row of the training range (x - mean on the other rows), never
\* undefined; for a range of fewer than two rows the sample std is undefined
\* and is stored as NaN, still never as 0.
C8_ZeroStdReplaced ==
  sc.fit_done =>
    \A c \in ColSet :
      /\ Cardinality(FitRows) >= 2 =>
           /\ ZeroStdColumn(c) => IsStdOne(sc.std_[c])
           /\ DefinedNonzero(sc.std_[c])
           /\ Transformed =>
                \A r \in DOMAIN sc.call.out :
                  /\ sc.call.out[r][c].k = "val"
                  /\ (ZeroStdColumn(c) /\ r \in FitRows)
                       => IsScaledZero(sc.call.out[r][c])
                  /\ ZeroStdColumn(c) =>
                       /\ sc.call.out[r][c].n
                            = sc.features[r][c] * sc.mean_[c].d - sc.mean_[c].n
                       /\ IsStdOne(sc.call.out[r][c].s)
      /\ Cardinality(FitRows) < 2 => IsNaN(sc.std_[c])
      /\ IsNaN(sc.std_[c]) \/ sc.std_[c].n # 0

\* fit_transform has run on a training range of two rows on which column "a"
\* is constant and column "b" is not, with a later row where "a" differs
C8_Witness ==
  /\ sc.op = "fit_transform"
  /\ Cardinality(FitRows) = 2
  /\ ZeroStdColumn("a") /\ ~ZeroStdColumn("b")
  /\ \E r \in DOMAIN sc.call.out :
       r \notin FitRows /\ ~IsScaledZero(sc.call.out[r]["a"])

(***************************************************************************)
(* features/ha_external.py, features/ha_internal.py : rolling slope,       *)
(* angle and acceleration                                                  *)
(***************************************************************************)
RollSeries == UNION {[0..(n - 1) -> 1..MaxPrice] : n \in 0..MaxSeries}
\* the window lists: one window, or two consecutive ones
WindowLists == {<<w>> : w \in 1..MaxWindow} \cup {<<w, w + 1>> : w \in 1..(MaxWindow - 1)}

RECURSIVE SumTo(_, _)
\* sum of f[x] for x in 0..hi
SumTo(f, hi) == IF hi < 0 THEN 0 ELSE f[hi] + SumTo(f, hi - 1)

\* lines 7-15: slope_calc on the w values y[0..w-1], exactly.  With
\* cx = 2x - (w-1) (twice x - x_mean) and cy = w*y - sum(y) (w times
\* y - y_mean): num = sum(cx*cy)/(2w), denom = sum(cx^2)/4.
SlopeCalc(y, w) ==
  LET Y == SumTo(y, w - 1)
      cx == [x \in 0..(w - 1) |-> 2 * x - (w - 1)]
      A == SumTo([x \in 0..(w - 1) |-> cx[x] * (w * y[x] - Y)], w - 1)
      B == SumTo([x \in 0..(w - 1) |-> cx[x] * cx[x]], w - 1)
  IN IF B # 0 THEN Rat(2 * A, w * B) ELSE Rat(0, 1)

\* faulty variant: one observation too many is required
EnoughPeriodsLate(r, window) == r >= window
\* line 17: rolling(window, min_periods=window): the window ending at row r
\* has window observations
EnoughPeriods(r, window) == r >= window - 1

\* line 17: series.rolling(window, min_periods=window).apply(slope_calc, raw=True)
RollingSlope(series, window) ==
  [r \in DOMAIN series |->
     IF EnoughPeriods(r, window)
     THEN SlopeCalc([x \in 0..(window - 1) |-> series[r - window + 1 + x]], window)
     ELSE NaN]

\* line 21: np.degrees(np.arctan(slope)), elementwise; NaN stays NaN
AngleFromSlope(slope) ==
  [r \in DOMAIN slope |->
     IF IsNaN(slope[r]) THEN NaN ELSE [k |-> "degrees_arctan", of |-> slope[r]]]

\* lines 41 / 17: slope.diff(): row r minus row r-1, NaN on row 0 and
\* wherever an operand is NaN
Diff(a) ==
  [r \in DOMAIN a |->
     IF r = 0 \/ IsNaN(a[r]) \/ IsNaN(a[r - 1]) THEN NaN
     ELSE Rat(a[r].n * a[r - 1].d - a[r - 1].n * a[r].d, a[r].d * a[r - 1].d)]

\* the three columns one window adds to result
MetricColumns(prefix, series, w) ==
  LET slope == RollingSlope(series, w)
  IN [c \in {<<prefix, "slope", w>>, <<prefix, "angle", w>>, <<prefix, "accel", w>>} |->
        IF c[2] = "slope" THEN slope
        ELSE IF c[2] = "angle" THEN AngleFromSlope(slope)
        ELSE Diff(slope)]

\* result[name] = column, for every name of cols (an existing name is overwritten)
WithColumns(result, cols) ==
  [c \in DOMAIN result \cup DOMAIN cols |->
     IF c \in DOMAIN cols THEN cols[c] ELSE result[c]]

RollInit ==
  \E fn \in {"compute_ha_external_metrics", "compute_ha_internal_metrics"},
     ser \in RollSeries, ws \in WindowLists :
    roll = [pc |-> "loop", fn |-> fn, series |-> ser, windows |-> ws,
            k |-> 1, result |-> <<>>]

\* ha_external.py lines 38-44: one iteration over windows, on ha_df["ha_close"]
HaExtWindow ==
  /\ roll.pc = "loop" /\ roll.fn = "compute_ha_external_metrics"
  /\ roll.k <= Len(roll.windows)
  /\ roll' = [roll EXCEPT
       !.k = @ + 1,
       !.result = WithColumns(@, MetricColumns("haext", roll.series, roll.windows[roll.k]))]
  /\ UNCHANGED <<lab, win, sc, ha, tcn, tr>>

\* ha_internal.py lines 14-20: one iteration over windows, on ohlcv["close"]
HaIntWindow ==
  /\ roll.pc = "loop" /\ roll.fn = "compute_ha_internal_metrics"
  /\ roll.k <= Len(roll.windows)
  /\ roll' = [roll EXCEPT
       !.k = @ + 1,
       !.result = WithColumns(@, MetricColumns("haint", roll.series, roll.windows[roll.k]))]
  /\ UNCHANGED <<lab, win, sc, ha, tcn, tr>>

\* ha_external.py line 45, ha_internal.py line 21: return result
RollReturn ==
  /\ roll.pc = "loop" /\ roll.k > Len(roll.windows)
  /\ roll' = [roll EXCEPT !.pc = "done"]
  /\ UNCHANGED <<lab, win, sc, ha, tcn, tr>>

InitRolling == RollInit /\ lab = Idle /\ win = Idle /\ sc = Idle /\ ha = Idle /\ tcn = Idle /\ tr = Idle
NextRolling == HaExtWindow \/ HaIntWindow \/ RollReturn
SpecRolling == InitRolling /\ [][NextRolling]_vars

(***************************************************************************)
(* Claims about the rolling metrics.                                       *)
(***************************************************************************)
\* the rows on which a column is undefined
UndefinedRows(col) == {r \in DOMAIN col : IsNaN(col[r])}
\* the columns for windows w >= 2 on a series longer than w + 1
ClaimedColumns ==
  {c \in DOMAIN roll.result : c[3] >= 2 /\ ArrLen(roll.series) > c[3] + 1}
FirstRows(m) == 0..(m - 1)

\* C7 (as stated): slope, angle and acceleration are undefined for exactly the
\* first w-1, w and w+1 rows respectively, and defined on every later row.
C7_WarmupAsStated ==
  \A c \in ClaimedColumns :
    UndefinedRows(roll.result[c]) =
      FirstRows(IF c[2] = "slope" THEN c[3] - 1
                ELSE IF c[2] = "angle" THEN c[3] ELSE c[3] + 1)

\* C7 (amended): slope, angle and acceleration are undefined for exactly the
\* first w-1, w-1 and w rows respectively, and defined on every later row.
C7_Warmup ==
  \A c \in ClaimedColumns :
    UndefinedRows(roll.result[c]) =
      FirstRows(IF c[2] = "slope" THEN c[3] - 1
                ELSE IF c[2] = "angle" THEN c[3] - 1 ELSE c[3])

\* both entry points have returned the columns of windows 2 and 3 on a series
\* of five rows
C7_Witness ==
  /\ roll.pc = "done"
  /\ roll.windows = <<2, 3>>
  /\ ArrLen(roll.series) = 5
  /\ \E pre \in {"haext", "haint"} :
       /\ <<pre, "accel", 3>> \in ClaimedColumns
       /\ ~IsNaN(roll.result[<<pre, "accel", 3>>][3])
       /\ roll.result[<<pre, "slope", 2>>][1] = Rat(4, 4)

(***************************************************************************)
(* data/ha.py : compute_heikin_ashi                                        *)
(***************************************************************************)
Bar(o, h, l, c) == [open |-> o, high |-> h, low |-> l, close |-> c]
\* the bars a table is made of: open and close on two price levels, with
\* high above low (a candle) or below it (not one, the code does not check),
\* and the three bars of the documented fixture
BarLevels == {1, 4}
Bars ==
  {Bar(o, hl[1], hl[2], c) : o \in BarLevels, c \in BarLevels, hl \in {<<4, 1>>, <<1, 4>>}}
    \cup {Bar(10, 12, 9, 11), Bar(11, 13, 10, 12), Bar(12, 14, 11, 13)}
OhlcTables == UNION {[0..(n - 1) -> Bars] : n \in 0..MaxBars}
\* the column sets a caller may pass
ColumnSets == {{"open", "high", "low", "close"},
               {"open", "high", "low", "close", "volume"},
               {"open", "high", "low", "volume"}}
RequiredColumns == {"open", "high", "low", "close"}

RatAdd(a, b) == Rat(a.n * b.d + b.n * a.d, a.d * b.d)
RatHalf(a) == Rat(a.n, 2 * a.d)
RatMax(a, b) == IF RatLeq(a, b) THEN b ELSE a
RatMin(a, b) == IF RatLeq(a, b) THEN a ELSE b

\* lines 17-19: the row sum over 4.0
HaCloseOf(bar) == Rat(bar.open + bar.high + bar.low + bar.close, 4)

\* faulty variant: the recurrence reads the current row
PreviousRowSame(i) == i
\* line 24: the row whose ha_open and ha_close feed ha_open[i]
PreviousRow(i) == i - 1

\* lines 27-32: np.maximum.reduce / np.minimum.reduce over three arrays
Maximum3(a, b, c) == RatMax(RatMax(a, b), c)
Minimum3(a, b, c) == RatMin(RatMin(a, b), c)

HaInit ==
  \E t \in OhlcTables, cols \in ColumnSets :
    ha = [pc |-> "check", ohlcv |-> t, columns |-> cols, n |-> ArrLen(t),
          i |-> 0, ha_close |-> <<>>, ha_open |-> <<>>,
          ha_high |-> <<>>, ha_low |-> <<>>, index |-> <<>>]

\* lines 11-14: a required column is missing
HaMissingColumns ==
  /\ ha.pc = "check"
  /\ ~(RequiredColumns \subseteq ha.columns)
  /\ ha' = [ha EXCEPT !.pc = "ValueError"]
  /\ UNCHANGED <<lab, win, sc, roll, tcn, tr>>

\* lines 16-21: the frame on ohlcv.index, ha_close for every row, ha_open zeros
HaClose ==
  /\ ha.pc = "check"
  /\ RequiredColumns \subseteq ha.columns
  /\ ha' = [ha EXCEPT
       !.pc = "first",
       !.index = [x \in DOMAIN ha.ohlcv |-> x],
       !.ha_close = [x \in DOMAIN ha.ohlcv |-> HaCloseOf(ha.ohlcv[x])],
       !.ha_open = [x \in DOMAIN ha.ohlcv |-> Rat(0, 1)]]
  /\ UNCHANGED <<lab, win, sc, roll, tcn, tr>>

\* line 22 on an empty table: index 0 is out of bounds
HaEmpty ==
  /\ ha.pc = "first" /\ ha.n = 0
  /\ ha' = [ha EXCEPT !.pc = "IndexError"]
  /\ UNCHANGED <<lab, win, sc, roll, tcn, tr>>

\* line 22: ha_open[0]
HaOpenFirst ==
  /\ ha.pc = "first" /\ ha.n > 0
  /\ ha' = [ha EXCEPT
       !.pc = "loop", !.i = 1,
       !.ha_open[0] = RatHalf(Rat(ha.ohlcv[0].open + ha.ohlcv[0].close, 1))]
  /\ UNCHANGED <<lab, win, sc, roll, tcn, tr>>

\* lines 23-24: one iteration of the recurrence
HaOpenStep ==
  /\ ha.pc = "loop" /\ ha.i < ha.n
  /\ ha' = [ha EXCEPT
       !.i = @ + 1,
       !.ha_open[ha.i] = RatHalf(RatAdd(ha.ha_open[PreviousRow(ha.i)],
                                        ha.ha_close[PreviousRow(ha.i)]))]
  /\ UNCHANGED <<lab, win, sc, roll, tcn, tr>>

\* lines 25-34: ha_high, ha_low, return
HaHighLow ==
  /\ ha.pc = "loop" /\ ha.i = ha.n
  /\ ha' = [ha EXCEPT
       !.pc = "done",
       !.ha_high = [x \in DOMAIN ha.ohlcv |->
                     Maximum3(Rat(ha.ohlcv[x].high, 1), ha.ha_open[x], ha.ha_close[x])],
       !.ha_low = [x \in DOMAIN ha.ohlcv |->
                    Minimum3(Rat(ha.ohlcv[x].low, 1), ha.ha_open[x], ha.ha_close[x])]]
  /\ UNCHANGED <<lab, win, sc, roll, tcn, tr>>

InitHA == HaInit /\ lab = Idle /\ win = Idle /\ sc = Idle /\ roll = Idle /\ tcn = Idle /\ tr = Idle
NextHA == HaMissingColumns \/ HaClose \/ HaEmpty \/ HaOpenFirst \/ HaOpenStep \/ HaHighLow
SpecHA == InitHA /\ [][NextHA]_vars

(***************************************************************************)
(* Claims about compute_heikin_ashi.                                       *)
(***************************************************************************)
RatEq(a, b) == a.n * b.d = b.n * a.d
\* 2*a = b + c, cross-multiplied
TwiceIsSum(a, b, c) == 2 * a.n * b.d * c.d = a.d * (b.n * c.d + c.n * b.d)

\* C9: for n >= 1 rows the result has n rows on the input's index with
\* ha_close[i] = (open+high+low+close)[i]/4, ha_open[0] = (open[0]+close[0])/2,
\* ha_open[i] = (ha_open[i-1]+ha_close[i-1])/2, ha_high[i] the largest and
\* ha_low[i] the smallest of {high[i] resp. low[i], ha_open[i], ha_close[i]},
\* so ha_low <= ha_open, ha_close <= ha_high on every row.
C9_HeikinAshi ==
  /\ (ha.n >= 1 /\ RequiredColumns \subseteq ha.columns)
       => ha.pc \notin {"ValueError", "IndexError"}
  /\ ha.pc = "done" =>
      /\ ha.n >= 1
      /\ ha.index = [x \in 0..(ha.n - 1) |-> x]
      /\ \A col \in {ha.ha_close, ha.ha_open, ha.ha_high, ha.ha_low} :
           DOMAIN col = 0..(ha.n - 1)
      /\ 2 * ha.ha_open[0].n = ha.ha_open[0].d * (ha.ohlcv[0].open + ha.ohlcv[0].close)
      /\ \A x \in 0..(ha.n - 1) :
           LET b == ha.ohlcv[x]
               o == ha.ha_open[x]
               c == ha.ha_close[x]
               hi == ha.ha_high[x]
               lo == ha.ha_low[x]
           IN /\ 4 * c.n = c.d * (b.open + b.high + b.low + b.close)
              /\ x > 0 => TwiceIsSum(o, ha.ha_open[x - 1], ha.ha_close[x - 1])
              /\ RatLeq(Rat(b.high, 1), hi) /\ RatLeq(o, hi) /\ RatLeq(c, hi)
              /\ RatEq(hi, Rat(b.high, 1)) \/ RatEq(hi, o) \/ RatEq(hi, c)
              /\ RatLeq(lo, Rat(b.low, 1)) /\ RatLeq(lo, o) /\ RatLeq(lo, c)
              /\ RatEq(lo, Rat(b.low, 1)) \/ RatEq(lo, o) \/ RatEq(lo, c)

\* the documented three-row fixture has been transformed:
\* ha_close = [10.5, 11.5, 12.5], ha_open = [10.5, 10.5, 11.0]
C9_Witness ==
  /\ ha.pc = "done"
  /\ ha.n = 3
  /\ ha.ohlcv[0] = Bar(10, 12, 9, 11)
  /\ ha.ohlcv[1] = Bar(11, 13, 10, 12)
  /\ ha.ohlcv[2] = Bar(12, 14, 11, 13)
  /\ RatEq(ha.ha_close[0], Rat(21, 2)) /\ RatEq(ha.ha_close[1], Rat(23, 2))
  /\ RatEq(ha.ha_close[2], Rat(25, 2))
  /\ RatEq(ha.ha_open[0], Rat(21, 2)) /\ RatEq(ha.ha_open[1], Rat(21, 2))
  /\ RatEq(ha.ha_open[2], Rat(11, 1))

\* a row whose ha_open lies above the raw high has been transformed
C9_WitnessAboveHigh ==
  /\ ha.pc = "done"
  /\ \E x \in DOMAIN ha.ha_high :
       /\ ~RatLeq(ha.ha_high[x], Rat(ha.ohlcv[x].high, 1))
       /\ RatEq(ha.ha_high[x], ha.ha_open[x])

(***************************************************************************)
(* models/tcn.py : Chomp1d, TemporalBlock, TCNBackbone                     *)
(*                                                                         *)
(* A tensor is modelled along its time axis: dep[o] is the set of time     *)
(* steps of the backbone input that the activations at position o are      *)
(* computed from (over all channels).  ReLU and Dropout act elementwise    *)
(* and leave dep unchanged.                                                *)
(***************************************************************************)
ChannelLists ==
  UNION {[1..m -> 1..MaxChannels] : m \in 1..MaxLevels}

RECURSIVE UnionOf(_)
UnionOf(S) ==
  IF S = {} THEN {}
  ELSE LET e == CHOOSE x \in S : TRUE IN e \cup UnionOf(S \ {e})

\* nn.Conv1d(kernel_size, stride=1, padding, dilation) on a tensor of length
\* len: zero padding on both sides, out[o] = sum_j w[j] * padded[o + j*dilation]
ConvOutLen(len, kernel_size, padding, dilation) ==
  len + 2 * padding - dilation * (kernel_size - 1)
Conv1d(dep, kernel_size, padding, dilation) ==
  LET len == ArrLen(dep)
  IN [o \in 0..(ConvOutLen(len, kernel_size, padding, dilation) - 1) |->
       UnionOf({dep[q] : q \in {o + j * dilation - padding : j \in 0..(kernel_size - 1)}
                                 \cap (0..(len - 1))})]

\* faulty variant: the leading instead of the trailing outputs are trimmed
ChompLeading(dep, chomp_size) ==
  [o \in 0..(ArrLen(dep) - chomp_size - 1) |-> dep[o + chomp_size]]
\* lines 12-15: Chomp1d.forward: x[:, :, :-chomp_size], or x when chomp_size is 0
Chomp(dep, chomp_size) ==
  IF chomp_size = 0 THEN dep
  ELSE [o \in 0..(ArrLen(dep) - chomp_size - 1) |-> dep[o]]

\* lines 90-91: dilation and padding of block i
Dilation(i) == 2 ^ i
Padding(kernel_size, i) == (kernel_size - 1) * Dilation(i)

\* line 73: out + res, elementwise on tensors of equal length
AddTensors(a, b) == [o \in DOMAIN a |-> a[o] \cup b[o]]

TcnInit ==
  \E len \in 1..MaxInputLen, ks \in 1..MaxKernel, nf \in 1..MaxChannels,
     nc \in ChannelLists :
    tcn = [pc |-> "conv1", seq_len |-> len, kernel_size |-> ks,
           num_features |-> nf, num_channels |-> nc,
           i |-> 0, in_ch |-> nf,
           x |-> [t \in 0..(len - 1) |-> {t}],
           out |-> [t \in 0..(len - 1) |-> {t}],
           blocks |-> <<>>]

\* lines 62, 64-65: conv1 (then relu1, dropout1 after the chomp)
TcnConv1 ==
  /\ tcn.pc = "conv1"
  /\ tcn' = [tcn EXCEPT
       !.pc = "chomp1",
       !.out = Conv1d(tcn.x, tcn.kernel_size,
                      Padding(tcn.kernel_size, tcn.i), Dilation(tcn.i))]
  /\ UNCHANGED <<lab, win, sc, roll, ha, tr>>

\* lines 63-65: chomp1, relu1, dropout1
TcnChomp1 ==
  /\ tcn.pc = "chomp1"
  /\ tcn' = [tcn EXCEPT
       !.pc = "conv2",
       !.out = Chomp(tcn.out, Padding(tcn.kernel_size, tcn.i))]
  /\ UNCHANGED <<lab, win, sc, roll, ha, tr>>

\* line 67: conv2
TcnConv2 ==
  /\ tcn.pc = "conv2"
  /\ tcn' = [tcn EXCEPT
       !.pc = "chomp2",
       !.out = Conv1d(tcn.out, tcn.kernel_size,
                      Padding(tcn.kernel_size, tcn.i), Dilation(tcn.i))]
  /\ UNCHANGED <<lab, win, sc, roll, ha, tr>>

\* lines 68-70: chomp2, relu2, dropout2
TcnChomp2 ==
  /\ tcn.pc = "chomp2"
  /\ tcn' = [tcn EXCEPT
       !.pc = "res",
       !.out = Chomp(tcn.out, Padding(tcn.kernel_size, tcn.i))]
  /\ UNCHANGED <<lab, win, sc, roll, ha, tr>>

\* the block is done: its output feeds the next block (lines 103-104, 107)
BlockDone(output) ==
  [tcn EXCEPT
     !.pc = IF tcn.i + 1 < Len(tcn.num_channels) THEN "conv1" ELSE "done",
     !.i = @ + 1,
     !.in_ch = tcn.num_channels[tcn.i + 1],
     !.x = output, !.out = output,
     !.blocks = Append(@, output)]

\* lines 72-73 with downsample None (in_channels = out_channels): res = x
TcnResidualIdentity ==
  /\ tcn.pc = "res"
  /\ tcn.in_ch = tcn.num_channels[tcn.i + 1]
  /\ tcn' = BlockDone(AddTensors(tcn.out, tcn.x))
  /\ UNCHANGED <<lab, win, sc, roll, ha, tr>>

\* lines 72-73 with the 1x1 downsample convolution (in_channels # out_channels)
TcnResidualDownsample ==
  /\ tcn.pc = "res"
  /\ tcn.in_ch # tcn.num_channels[tcn.i + 1]
  /\ tcn' = BlockDone(AddTensors(tcn.out, Conv1d(tcn.x, 1, 0, 1)))
  /\ UNCHANGED <<lab, win, sc, roll, ha, tr>>

InitTCN == TcnInit /\ lab = Idle /\ win = Idle /\ sc = Idle /\ roll = Idle /\ ha = Idle /\ tr = Idle
NextTCN ==
  TcnConv1 \/ TcnChomp1 \/ TcnConv2 \/ TcnChomp2
    \/ TcnResidualIdentity \/ TcnResidualDownsample
SpecTCN == InitTCN /\ [][NextTCN]_vars

(***************************************************************************)
(* Claims about the TCN blocks.                                            *)
(***************************************************************************)
\* receptive field after b blocks of kernel size ks: 1 + 2*(ks-1)*(2^b - 1)
ReceptiveField(ks, b) == 1 + 2 * (ks - 1) * (2 ^ b - 1)
LastStep == tcn.seq_len - 1

\* C2: every block output has the input's length L and its value at t is
\* computed from input steps <= t only (exactly the receptive field ending at
\* t); no activation of the backbone at a position t < L-1, chomped or not,
\* is computed from the last input step, so perturbing only that step changes
\* none of them.
C2_Causal ==
  /\ \A o \in DOMAIN tcn.out :
       /\ \A q \in tcn.out[o] : q <= o /\ q <= LastStep
       /\ o < LastStep => LastStep \notin tcn.out[o]
  /\ tcn.pc \in {"conv1", "conv2", "res", "done"} =>
       DOMAIN tcn.out = 0..LastStep
  /\ \A b \in DOMAIN tcn.blocks :
       /\ DOMAIN tcn.blocks[b] = 0..LastStep
       /\ \A t \in 0..LastStep :
            /\ tcn.blocks[b][t] =
                 Max2(0, t - ReceptiveField(tcn.kernel_size, b) + 1)..t
            /\ t < LastStep => LastStep \notin tcn.blocks[b][t]

\* a three-block backbone with kernel size 3 and changing channel widths has
\* run on four time steps; its last output step sees the whole input
C2_Witness ==
  /\ tcn.pc = "done"
  /\ tcn.kernel_size = 3
  /\ tcn.seq_len = 4
  /\ Len(tcn.blocks) = 3
  /\ tcn.num_features # tcn.num_channels[1]
  /\ tcn.num_channels[2] = tcn.num_channels[3]
  /\ tcn.blocks[3][3] = 0..3
  /\ tcn.blocks[1][2] = 0..2

(***************************************************************************)
(* train.py : train_model, lines 64-84 (scaling, windowing, split)         *)
(***************************************************************************)
TrainFracs == {Rat(f, FracDen) : f \in 1..(FracDen - 1)}

\* line 68: int(n * train_frac)
TrainN(n, frac) == (n * frac.n) \div frac.d

RECURSIVE Generate(_, _, _, _, _)
\* window.py lines 23-27: the (start, end) pairs the while loop appends
Generate(num_timesteps, seq_len, stride, start, indices) ==
  IF Fits(start, seq_len, num_timesteps)
  THEN Generate(num_timesteps, seq_len, stride, start + stride,
                ArrAppend(indices, <<start, start + seq_len>>))
  ELSE indices

\* Python list/array slicing: the position a bound b denotes in a sequence
\* of length len (a negative bound counts from the end)
SliceBound(b, len) == IF b < 0 THEN Max2(len + b, 0) ELSE Min2(b, len)
\* positions of X[:b] and of X[b:]
UpTo(b, len) == {x \in 0..(len - 1) : x < SliceBound(b, len)}
From(b, len) == {x \in 0..(len - 1) : x >= SliceBound(b, len)}

TrainInit ==
  \E n \in 0..MaxTrainRows, sl \in 1..MaxSeqLen, fr \in TrainFracs :
    tr = [pc |-> "split_point", n |-> n, seq_len |-> sl, train_frac |-> fr,
          train_n |-> 0, fit_rows |-> {}, indices |-> <<>>,
          train |-> {}, valid |-> {}]

\* lines 67-69: n, train_n, train_slice
TrainSplitPoint ==
  /\ tr.pc = "split_point"
  /\ tr' = [tr EXCEPT !.pc = "scale", !.train_n = TrainN(tr.n, tr.train_frac)]
  /\ UNCHANGED <<lab, win, sc, roll, ha, tcn>>

\* lines 71-75: the scaler is fit on rows slice(0, train_n), all rows are scaled
TrainScale ==
  /\ tr.pc = "scale"
  /\ tr' = [tr EXCEPT !.pc = "window",
                      !.fit_rows = SliceIdx(0, tr.train_n, tr.n)]
  /\ UNCHANGED <<lab, win, sc, roll, ha, tcn>>

\* lines 77-81: the windows of the stride-1 generator
TrainWindows ==
  /\ tr.pc = "window"
  /\ tr' = [tr EXCEPT !.pc = "split",
                      !.indices = Generate(tr.n, tr.seq_len, 1, 0, <<>>)]
  /\ UNCHANGED <<lab, win, sc, roll, ha, tcn>>

\* lines 83-84: X[: train_n - seq_len + 1] and X[train_n - seq_len + 1 :]
TrainSplit ==
  /\ tr.pc = "split"
  /\ LET b == tr.train_n - tr.seq_len + 1
         ns == ArrLen(tr.indices)
     IN tr' = [tr EXCEPT !.pc = "datasets",
                         !.train = UpTo(b, ns), !.valid = From(b, ns)]
  /\ UNCHANGED <<lab, win, sc, roll, ha, tcn>>

InitTrain == TrainInit /\ lab = Idle /\ win = Idle /\ sc = Idle /\ roll = Idle /\ ha = Idle /\ tcn = Idle
NextTrain == TrainSplitPoint \/ TrainScale \/ TrainWindows \/ TrainSplit
SpecTrain == InitTrain /\ [][NextTrain]_vars

(***************************************************************************)
(* Claims about the train / validation split.                              *)
(***************************************************************************)
WindowRows(x) == {r \in 0..(tr.n - 1) : tr.indices[x][1] <= r /\ r < tr.indices[x][2]}

\* the split is a partition of the generated windows, and every validation
\* window ends at a row >= train_n
SplitPartitions ==
  /\ tr.train \cap tr.valid = {}
  /\ tr.train \cup tr.valid = DOMAIN tr.indices
  /\ \A x \in tr.valid : tr.indices[x][2] - 1 >= tr.train_n

\* C10: with train_n = floor(n*train_frac), every training window covers only
\* rows < train_n (the rows the scaler was fit on), every validation window
\* ends at a row >= train_n, and the two sets partition the generated windows.
C10_TrainWithinFitRange ==
  tr.pc = "datasets" =>
    /\ tr.train_n * tr.train_frac.d <= tr.n * tr.train_frac.n
    /\ (tr.train_n + 1) * tr.train_frac.d > tr.n * tr.train_frac.n
    /\ \A x \in tr.train :
         /\ \A r \in WindowRows(x) : r < tr.train_n
         /\ WindowRows(x) \subseteq tr.fit_rows
    /\ SplitPartitions

\* what does hold: the claim whenever train_n >= seq_len - 1, and the
\* partition and validation parts always
C10_WhenSplitPointNonNegative ==
  tr.pc = "datasets" =>
    /\ SplitPartitions
    /\ tr.train_n >= tr.seq_len - 1 =>
         \A x \in tr.train : WindowRows(x) \subseteq tr.fit_rows

====
